---- MODULE Spec2Model ----
(***************************************************************************)
(* Model of the compute kernels of arm-migration-example: byte hashing,    *)
(* matrix multiply/sum, substring counting, memory copy and polynomial     *)
(* evaluation, in the library files (hash_operations.cpp, ...) and in      *)
(* main.cpp, for each build target selected by the preprocessor.          *)
(*                                                                         *)
(* One behaviour is one call of one kernel in one build.  Init draws the   *)
(* build and the call's arguments; each action is one loop iteration (a    *)
(* vector block, a scalar tail element) or the return of the kernel.       *)
(* Real numbers are modelled by integers (exact arithmetic); 64-bit and    *)
(* 32-bit unsigned values are kept as 16-bit limbs, least significant      *)
(* first, so that the wraparound at 2^64 and 2^32 is computed explicitly.  *)
(***************************************************************************)
EXTENDS Integers, Sequences, FiniteSets, TLC

VARIABLES
    file,        \* "lib": the *_operations.cpp / string_search.cpp / polynomial_eval.cpp files; "main": main.cpp
    target,      \* "x86_64", "aarch64" or "other": the macro the preprocessor sees
    charSigned,  \* whether plain char is signed in this build
    kernel,      \* the kernel being called
    pc,          \* "run", "done", "thrown", "ub", "crashed"
    i, j, k,     \* the loop indices of the running kernel (0-based, as in the source)
    data,        \* compute_hash: the byte buffer (values 0..255)
    hash,        \* compute_hash: the running 64-bit hash (4 limbs)
    crc,         \* compute_hash of main.cpp on aarch64: the running crc (2 limbs)
    text, pattern, count, cmps,    \* string search: arguments, result, characters compared
    A, B, result, reads,           \* multiply: operands, returned matrix, elements read
    sum_vec, sum, total,           \* multiply / sum: the two lanes, the scalar sum, Matrix::sum's total
    src, dest, n,                  \* memory copy
    x, coeffs, result_vec, power_vec, pres,  \* polynomial: arguments, the term and power lanes, the local result
    trace        \* history: the loop iterations the running kernel has executed, in order

buildVars  == <<file, target, charSigned>>
hashVars   == <<data, hash, crc>>
searchVars == <<text, pattern, count, cmps>>
matVars    == <<A, B, result, reads, sum_vec, sum, total>>
copyVars   == <<src, dest, n>>
polyVars   == <<x, coeffs, result_vec, power_vec, pres>>
vars == <<file, target, charSigned, kernel, pc, i, j, k, data, hash, crc,
          text, pattern, count, cmps, A, B, result, reads, sum_vec, sum, total,
          src, dest, n, x, coeffs, result_vec, power_vec, pres, trace>>

-----------------------------------------------------------------------------
(* Builds *)

Files   == {"lib", "main"}
Targets == {"x86_64", "aarch64", "other"}

\* The signedness of plain char is fixed by the target's ABI: signed on
\* x86-64, either on aarch64 (unsigned on Linux, signed on Darwin and
\* Windows) and on any other target.
CharSignedness(t) == IF t = "x86_64" THEN {TRUE} ELSE BOOLEAN

\* #if defined(__x86_64__) ... #define USE_X86_SIMD 1 / #elif aarch64 ... USE_ARM_NEON 1
\* hash_operations.cpp, matrix_operations.cpp and polynomial_eval.cpp know both
\* vector variants.
HashPath(f, t) ==
    IF f = "lib"
    THEN (IF t = "x86_64" THEN "sse2" ELSE IF t = "aarch64" THEN "neon" ELSE "scalar")
    ELSE (IF t = "aarch64" THEN "crc" ELSE "scalar")

-----------------------------------------------------------------------------
(* Unsigned fixed-width arithmetic on 16-bit limbs *)

Limb == 2 ^ 16

\* the 64-bit value of a small natural number
U64(v) == <<v % Limb, (v \div Limb) % Limb, 0, 0>>

\* unsigned long long addition, wrapping at 2^64
Add64(a, b) ==
    LET s0 == a[1] + b[1]
        s1 == a[2] + b[2] + (s0 \div Limb)
        s2 == a[3] + b[3] + (s1 \div Limb)
        s3 == a[4] + b[4] + (s2 \div Limb)
    IN  <<s0 % Limb, s1 % Limb, s2 % Limb, s3 % Limb>>

\* hash << 5 on unsigned long long: the top five bits are lost
Shl5(a) ==
    LET s0 == a[1] * 32
        s1 == a[2] * 32 + (s0 \div Limb)
        s2 == a[3] * 32 + (s1 \div Limb)
        s3 == a[4] * 32 + (s2 \div Limb)
    IN  <<s0 % Limb, s1 % Limb, s2 % Limb, s3 % Limb>>

\* the conversion of an int in -128..255 to unsigned long long (modulo 2^64)
IntToU64(v) ==
    IF v >= 0 THEN U64(v) ELSE <<Limb + v, Limb - 1, Limb - 1, Limb - 1>>

\* the value of the expression data[i] of type char holding the byte b
CharValue(b, signed) == IF signed /\ b >= 128 THEN b - 256 ELSE b

\* hash = ((hash << 5) + hash) + byte, with byte an unsigned char
FoldUnsigned(h, b) == Add64(Add64(Shl5(h), h), IntToU64(b))

\* hash = ((hash << 5) + hash) + data[i], with data[i] a plain char
FoldChar(h, b, signed) == Add64(Add64(Shl5(h), h), IntToU64(CharValue(b, signed)))

\* the inner loop for (int j = 0; j < 16; j++) over the lanes of the chunk
\* loaded at data + base; st is the loop's state <<hash, j>>
RECURSIVE FoldLanes(_, _, _)
FoldLanes(st, d, base) ==
    IF st[2] >= 16 THEN st[1]
    ELSE FoldLanes(<<FoldUnsigned(st[1], d[base + st[2] + 1]), st[2] + 1>>, d, base)

(* 32-bit crc on two limbs <<low, high>> *)
RECURSIVE Xor16(_, _, _)
Xor16(a, b, bits) ==
    IF bits = 0 THEN 0
    ELSE (((a % 2) + (b % 2)) % 2) + 2 * Xor16(a \div 2, b \div 2, bits - 1)

Xor32(a, b) == <<Xor16(a[1], b[1], 16), Xor16(a[2], b[2], 16)>>
Shr32(a) == <<(a[1] \div 2) + (a[2] % 2) * 32768, a[2] \div 2>>

\* the reflected CRC-32 polynomial 0xEDB88320 of the CRC32B/W/X instructions
CrcPolyLow  == 33568
CrcPolyHigh == 60856

RECURSIVE CrcBits(_, _)
CrcBits(c, bits) ==
    IF bits = 0 THEN c
    ELSE CrcBits(IF c[1] % 2 = 1 THEN Xor32(Shr32(c), <<CrcPolyLow, CrcPolyHigh>>)
                 ELSE Shr32(c), bits - 1)

\* __crc32b(crc, byte)
Crc32b(c, b) == CrcBits(Xor32(c, <<b, 0>>), 8)

\* __crc32w / __crc32d of a little-endian chunk of w bytes read at d[base..]:
\* the instruction folds the value's bits from the least significant one,
\* that is the chunk's bytes in memory order.
\* st is <<crc, bytes folded so far>>.
RECURSIVE CrcChunk(_, _, _, _)
CrcChunk(st, d, base, w) ==
    IF st[2] >= w THEN st[1]
    ELSE CrcChunk(<<Crc32b(st[1], d[base + st[2] + 1]), st[2] + 1>>, d, base, w)

-----------------------------------------------------------------------------
(* The history of loop iterations *)

\* one executed iteration: op is "block" for an iteration of a vector loop
\* and "tail" for an iteration of the loop that handles the remainder; the
\* iteration handled the w elements at, ..., at + w - 1 (of cell <<i, j>> in
\* multiply); hi is the highest index at which it read its input, -1 if it
\* read none; vals are the values it added to the running hash, in order;
\* ver are the text positions it verified against the whole pattern
Ev(op, at, w, cell, hi, vals, ver) ==
    [op |-> op, at |-> at, w |-> w, cell |-> cell, hi |-> hi, vals |-> vals, ver |-> ver]

NoCell == <<0, 0>>

-----------------------------------------------------------------------------
(* Values of the variables a call does not use *)

NoMatrix == [rows |-> 0, cols |-> 0, data |-> <<>>, none |-> TRUE]

IdleIdx    == i = 0 /\ j = 0 /\ k = 0 /\ trace = <<>>
IdleHash   == data = <<>> /\ hash = U64(0) /\ crc = <<0, 0>>
IdleSearch == text = <<>> /\ pattern = <<>> /\ count = 0 /\ cmps = 0
IdleMat    == /\ A = NoMatrix /\ B = NoMatrix /\ result = NoMatrix /\ reads = 0
              /\ sum_vec = <<0, 0>> /\ sum = 0 /\ total = 0
IdleCopy   == src = <<>> /\ dest = <<>> /\ n = 0
IdlePoly   == x = 0 /\ coeffs = <<>> /\ result_vec = <<0, 0>> /\ power_vec = <<0, 0>> /\ pres = 0

InitBuild ==
    /\ file \in Files
    /\ target \in Targets
    /\ charSigned \in CharSignedness(target)

-----------------------------------------------------------------------------
(* compute_hash *)

MaxHashLen == 17
HashBytes  == {97, 128, 255}

\* buffers of one byte value, with at most one position holding another
HashInputs ==
    { [p \in 1..len |-> IF p = pos THEN special ELSE fill] :
        len \in 0..MaxHashLen, pos \in 0..MaxHashLen,
        fill \in HashBytes, special \in HashBytes }

Seed == 5381

InitHash ==
    /\ InitBuild
    /\ kernel = "hash" /\ pc = "run"
    /\ IdleIdx
    /\ data \in HashInputs
    /\ hash = U64(Seed) /\ crc = <<0, 0>>
    /\ IdleSearch /\ IdleMat /\ IdleCopy /\ IdlePoly

notHash == <<searchVars, matVars, copyVars, polyVars, buildVars, kernel, j, k, data>>

\* a vector loop that stops one block early when the length is a multiple of 16
FullBlockStrict(idx, len) == idx + 16 < len

\* the condition i + 16 <= len of the vector loops
FullBlock(idx, len) == idx + 16 <= len

\* unsigned char byte = chunk_bytes[j] (vgetq_lane_u8(chunk, j)): the values
\* the 16 lanes of the chunk loaded at data + base add to the hash, in lane order
LaneAddends(d, base) == [q \in 1..16 |-> d[base + q]]

\* hash_operations.cpp, SSE2 path: one iteration of for (; i + 16 <= len; i += 16)
HashBlockSSE ==
    /\ kernel = "hash" /\ pc = "run" /\ HashPath(file, target) = "sse2"
    /\ FullBlock(i, Len(data))
    /\ hash' = FoldLanes(<<hash, 0>>, data, i)
    /\ i' = i + 16
    /\ UNCHANGED <<notHash, crc, pc>>
    /\ trace' = Append(trace, Ev("block", i, 16, NoCell, i + 15, LaneAddends(data, i), {}))

\* hash_operations.cpp, NEON path: one iteration of for (; i + 16 <= len; i += 16)
HashBlockNEON ==
    /\ kernel = "hash" /\ pc = "run" /\ HashPath(file, target) = "neon"
    /\ FullBlock(i, Len(data))
    /\ hash' = FoldLanes(<<hash, 0>>, data, i)
    /\ i' = i + 16
    /\ UNCHANGED <<notHash, crc, pc>>
    /\ trace' = Append(trace, Ev("block", i, 16, NoCell, i + 15, LaneAddends(data, i), {}))

\* the vector loop of the active path has ended (or the path has none)
HashBlocksDone ==
    \/ HashPath(file, target) = "scalar"
    \/ HashPath(file, target) \in {"sse2", "neon"} /\ ~FullBlock(i, Len(data))

\* hash_operations.cpp: one iteration of the remaining-bytes loop
HashTail ==
    /\ kernel = "hash" /\ pc = "run" /\ file = "lib"
    /\ HashBlocksDone
    /\ i < Len(data)
    /\ hash' = FoldChar(hash, data[i + 1], charSigned)
    /\ i' = i + 1
    /\ UNCHANGED <<notHash, crc, pc>>
    /\ trace' = Append(trace, Ev("tail", i, 1, NoCell, i, <<CharValue(data[i + 1], charSigned)>>, {}))

\* hash_operations.cpp: return hash
HashReturn ==
    /\ kernel = "hash" /\ pc = "run" /\ file = "lib"
    /\ HashBlocksDone
    /\ ~(i < Len(data))
    /\ pc' = "done"
    /\ UNCHANGED <<notHash, hash, crc, i>>
    /\ UNCHANGED trace

\* main.cpp, fallback branch: one iteration of for (i = 0; i < len; i++)
MainHashLoop ==
    /\ kernel = "hash" /\ pc = "run" /\ HashPath(file, target) = "scalar" /\ file = "main"
    /\ i < Len(data)
    /\ hash' = FoldChar(hash, data[i + 1], charSigned)
    /\ i' = i + 1
    /\ UNCHANGED <<notHash, crc, pc>>
    /\ trace' = Append(trace, Ev("tail", i, 1, NoCell, i, <<CharValue(data[i + 1], charSigned)>>, {}))

\* main.cpp, fallback branch: return hash
MainHashReturn ==
    /\ kernel = "hash" /\ pc = "run" /\ HashPath(file, target) = "scalar" /\ file = "main"
    /\ ~(i < Len(data))
    /\ pc' = "done"
    /\ UNCHANGED <<notHash, hash, crc, i>>
    /\ UNCHANGED trace

\* main.cpp, aarch64 branch: one iteration of for (; i + 7 < len; i += 8), CRC32X
MainCrc8 ==
    /\ kernel = "hash" /\ pc = "run" /\ HashPath(file, target) = "crc"
    /\ i + 7 < Len(data)
    /\ crc' = CrcChunk(<<crc, 0>>, data, i, 8)
    /\ i' = i + 8
    /\ UNCHANGED <<notHash, hash, pc>>
    /\ trace' = Append(trace, Ev("block", i, 8, NoCell, i + 7, <<>>, {}))

\* main.cpp, aarch64 branch: one iteration of for (; i + 3 < len; i += 4), CRC32W
MainCrc4 ==
    /\ kernel = "hash" /\ pc = "run" /\ HashPath(file, target) = "crc"
    /\ ~(i + 7 < Len(data))
    /\ i + 3 < Len(data)
    /\ crc' = CrcChunk(<<crc, 0>>, data, i, 4)
    /\ i' = i + 4
    /\ UNCHANGED <<notHash, hash, pc>>
    /\ trace' = Append(trace, Ev("tail", i, 4, NoCell, i + 3, <<>>, {}))

\* main.cpp, aarch64 branch: one iteration of for (; i < len; i++), CRC32B
MainCrc1 ==
    /\ kernel = "hash" /\ pc = "run" /\ HashPath(file, target) = "crc"
    /\ ~(i + 7 < Len(data)) /\ ~(i + 3 < Len(data))
    /\ i < Len(data)
    /\ crc' = Crc32b(crc, data[i + 1])
    /\ i' = i + 1
    /\ UNCHANGED <<notHash, hash, pc>>
    /\ trace' = Append(trace, Ev("tail", i, 1, NoCell, i, <<>>, {}))

\* hash = 5381; hash = ((hash << 5) + hash) + crc
CrcCombine(c) == Add64(Add64(Shl5(U64(Seed)), U64(Seed)), <<c[1], c[2], 0, 0>>)

\* main.cpp, aarch64 branch: combine with the seed and return
MainCrcReturn ==
    /\ kernel = "hash" /\ pc = "run" /\ HashPath(file, target) = "crc"
    /\ ~(i < Len(data))
    /\ hash' = CrcCombine(crc)
    /\ pc' = "done"
    /\ UNCHANGED <<notHash, crc, i>>
    /\ UNCHANGED trace

NextHash ==
    \/ HashBlockSSE \/ HashBlockNEON \/ HashTail \/ HashReturn
    \/ MainHashLoop \/ MainHashReturn
    \/ MainCrc8 \/ MainCrc4 \/ MainCrc1 \/ MainCrcReturn

SpecHash == InitHash /\ [][NextHash]_vars

(* compute_hash as a function of the build and the buffer: the loops above run to their end *)
\* st is the loop state <<hash, i>> (or <<crc, i>>)
RECURSIVE HashBlocksFrom(_, _)
HashBlocksFrom(st, d) ==
    IF st[2] + 16 <= Len(d)
    THEN HashBlocksFrom(<<FoldLanes(<<st[1], 0>>, d, st[2]), st[2] + 16>>, d)
    ELSE st

RECURSIVE HashTailFrom(_, _, _)
HashTailFrom(st, d, signed) ==
    IF st[2] < Len(d)
    THEN HashTailFrom(<<FoldChar(st[1], d[st[2] + 1], signed), st[2] + 1>>, d, signed)
    ELSE st[1]

RECURSIVE CrcFrom(_, _)
CrcFrom(st, d) ==
    IF st[2] + 7 < Len(d) THEN CrcFrom(<<CrcChunk(<<st[1], 0>>, d, st[2], 8), st[2] + 8>>, d)
    ELSE IF st[2] + 3 < Len(d) THEN CrcFrom(<<CrcChunk(<<st[1], 0>>, d, st[2], 4), st[2] + 4>>, d)
    ELSE IF st[2] < Len(d) THEN CrcFrom(<<Crc32b(st[1], d[st[2] + 1]), st[2] + 1>>, d)
    ELSE st[1]

compute_hash(f, t, signed, d) ==
    LET path == HashPath(f, t) IN
    IF path \in {"sse2", "neon"}
    THEN HashTailFrom(HashBlocksFrom(<<U64(Seed), 0>>, d), d, signed)
    ELSE IF path = "scalar" THEN HashTailFrom(<<U64(Seed), 0>>, d, signed)
    ELSE CrcCombine(CrcFrom(<<<<0, 0>>, 0>>, d))

\* the builds the preprocessor and the targets' ABIs allow
Builds == { <<f, t, s>> \in Files \X Targets \X BOOLEAN : s \in CharSignedness(t) }

(* The DJB2 fold of the specification: value * 33 + b modulo 2^64, b in 0..255 *)
Mul33Add(h, b) ==
    LET s0 == h[1] * 33 + b
        s1 == h[2] * 33 + (s0 \div Limb)
        s2 == h[3] * 33 + (s1 \div Limb)
        s3 == h[4] * 33 + (s2 \div Limb)
    IN  <<s0 % Limb, s1 % Limb, s2 % Limb, s3 % Limb>>

RECURSIVE Djb2From(_, _)
Djb2From(st, d) ==
    IF st[2] > Len(d) THEN st[1]
    ELSE Djb2From(<<Mul33Add(st[1], d[st[2]]), st[2] + 1>>, d)
Djb2(d) == Djb2From(<<U64(Seed), 1>>, d)

-----------------------------------------------------------------------------
(* String search: simd_string_search (string_search.cpp), naive_string_search (main.cpp) *)

MaxTextLen == 18
MaxPatLen  == 8
MaxPhrase  == 2
MaxUBCount == 1
Alphabet   == {97, 98}

Phrases == UNION { [1..l -> Alphabet] : l \in 1..MaxPhrase }

\* the first len characters of phrase repeated
Periodic(phrase, len) == [q \in 1..len |-> phrase[((q - 1) % Len(phrase)) + 1]]

Texts    == { Periodic(ph, len) : ph \in Phrases, len \in 0..MaxTextLen }
Patterns == { Periodic(ph, len) : ph \in Phrases, len \in 0..MaxPatLen }

\* string_search.cpp tests only __x86_64__; main.cpp tests only __aarch64__
SearchPath(f, t) ==
    IF f = "lib" THEN (IF t = "x86_64" THEN "sse2" ELSE "scalar")
    ELSE (IF t = "aarch64" THEN "neon" ELSE "scalar")

InitSearch ==
    /\ file \in Files /\ target \in Targets /\ charSigned = TRUE
    /\ kernel = "search" /\ pc = "run"
    /\ IdleIdx
    /\ text \in Texts /\ pattern \in Patterns
    /\ count = 0 /\ cmps = 0
    /\ IdleHash /\ IdleMat /\ IdleCopy /\ IdlePoly

notSearch == <<hashVars, matVars, copyVars, polyVars, buildVars, kernel, j, k, text, pattern>>

\* text[idx] on a std::string: a character, the terminator at idx = length,
\* and no defined value beyond it
OutOfBounds == -1
TextAt(t, idx) ==
    IF idx < Len(t) THEN t[idx + 1] ELSE IF idx = Len(t) THEN 0 ELSE OutOfBounds

\* i <= text_len - pattern_len in size_t arithmetic: when pattern_len exceeds
\* text_len the difference wraps to 2^64 - (pattern_len - text_len), which is
\* above every index
LeLastStart(idx, t, p) == IF Len(p) > Len(t) THEN TRUE ELSE idx <= Len(t) - Len(p)

\* the comparison loop for (j = j0; j < pattern_len; j++) at start index pos:
\* st is <<j, characters compared, outcome>>, outcome "go" while the loop runs
RECURSIVE Verify(_, _, _, _)
Verify(st, t, p, pos) ==
    IF st[3] # "go" THEN st
    ELSE IF st[1] >= Len(p) THEN <<st[1], st[2], "match">>
    ELSE IF TextAt(t, pos + st[1]) = OutOfBounds THEN <<st[1], st[2], "ub">>
    ELSE IF TextAt(t, pos + st[1]) # p[st[1] + 1]
         THEN Verify(<<st[1], st[2] + 1, "nomatch">>, t, p, pos)
         ELSE Verify(<<st[1] + 1, st[2] + 1, "go">>, t, p, pos)

Max2(a, b) == IF a >= b THEN a ELSE b

\* the highest text index the comparison loop started at j0 read (or tried to
\* read, when it ran out of the string), given its final state v; -1 if none
HighestRead(v, pos, j0) ==
    IF v[3] = "ub" THEN pos + v[1]
    ELSE IF v[2] = 0 THEN 0 - 1
    ELSE pos + j0 + v[2] - 1

\* the loop over the 16 positions of a block at i0, verifying from pattern[1]
\* the positions whose first character equals pattern[0];
\* st is <<bit, count, characters compared, "go" | "ub", positions verified,
\* highest text index read>>; lanecmp is the number of scalar comparisons
\* made per lane to test the first character
RECURSIVE CheckLanes(_, _, _, _, _)
CheckLanes(st, t, p, i0, lanecmp) ==
    IF st[4] # "go" \/ ~(st[1] < 16 /\ LeLastStart(i0 + st[1], t, p)) THEN st
    ELSE IF t[i0 + st[1] + 1] # p[1]
         THEN CheckLanes(<<st[1] + 1, st[2], st[3] + lanecmp, "go", st[5], st[6]>>,
                         t, p, i0, lanecmp)
         ELSE LET v == Verify(<<1, 0, "go">>, t, p, i0 + st[1]) IN
              CheckLanes(<<st[1] + 1,
                           IF v[3] = "match" THEN st[2] + 1 ELSE st[2],
                           st[3] + lanecmp + v[2],
                           IF v[3] = "ub" THEN "ub" ELSE "go",
                           st[5] \cup {i0 + st[1]},
                           Max2(st[6], HighestRead(v, i0 + st[1], 1))>>, t, p, i0, lanecmp)

\* simd_string_search: if (pattern_len == 0 || pattern_len > text_len) return 0
SearchRejects(t, p) == Len(p) = 0 \/ Len(p) > Len(t)

SearchReject ==
    /\ kernel = "search" /\ pc = "run" /\ file = "lib"
    /\ SearchRejects(text, pattern)
    /\ pc' = "done"
    /\ UNCHANGED <<notSearch, count, cmps, i>>
    /\ UNCHANGED trace

\* simd_string_search, SSE2 path: one iteration of
\* for (; i + 16 <= text_len - pattern_len + 1; i += 16)
SearchBlockSSE ==
    /\ kernel = "search" /\ pc = "run" /\ file = "lib" /\ SearchPath(file, target) = "sse2"
    /\ ~SearchRejects(text, pattern)
    /\ i + 16 <= Len(text) - Len(pattern) + 1
    /\ LET r == CheckLanes(<<0, count, cmps + 16, "go", {}, i + 15>>, text, pattern, i, 0) IN
         /\ count' = r[2]
         /\ cmps' = r[3]
         /\ pc' = IF r[4] = "ub" THEN "ub" ELSE pc
         /\ trace' = Append(trace, Ev("block", i, r[1], NoCell, r[6], <<>>, r[5]))
    /\ i' = i + 16
    /\ UNCHANGED notSearch

SearchBlocksDone ==
    \/ SearchPath(file, target) = "scalar"
    \/ SearchPath(file, target) = "sse2" /\ ~(i + 16 <= Len(text) - Len(pattern) + 1)

\* simd_string_search: one iteration of for (; i <= text_len - pattern_len; i++)
SearchTail ==
    /\ kernel = "search" /\ pc = "run" /\ file = "lib"
    /\ ~SearchRejects(text, pattern)
    /\ SearchBlocksDone
    /\ i <= Len(text) - Len(pattern)
    /\ LET v == Verify(<<0, 0, "go">>, text, pattern, i) IN
         /\ count' = IF v[3] = "match" THEN count + 1 ELSE count
         /\ cmps' = cmps + v[2]
         /\ pc' = IF v[3] = "ub" THEN "ub" ELSE pc
         /\ trace' = Append(trace, Ev("tail", i, 1, NoCell, HighestRead(v, i, 0), <<>>, {i}))
    /\ i' = i + 1
    /\ UNCHANGED notSearch

\* simd_string_search: return count
SearchReturn ==
    /\ kernel = "search" /\ pc = "run" /\ file = "lib"
    /\ ~SearchRejects(text, pattern)
    /\ SearchBlocksDone
    /\ ~(i <= Len(text) - Len(pattern))
    /\ pc' = "done"
    /\ UNCHANGED <<notSearch, count, cmps, i>>
    /\ UNCHANGED trace

\* naive_string_search takes the NEON block loop only for pattern_len >= 8
MainSearchBlocks == SearchPath(file, target) = "neon" /\ Len(pattern) >= 8

\* naive_string_search, fallback branch and the aarch64 branch for short
\* patterns: one iteration of for (i = 0; i <= text_len - pattern_len; i++)
MainSearchStep ==
    /\ kernel = "search" /\ pc = "run" /\ file = "main"
    /\ ~MainSearchBlocks
    /\ LeLastStart(i, text, pattern)
    /\ LET v == Verify(<<0, 0, "go">>, text, pattern, i) IN
         /\ count' = IF v[3] = "match" THEN count + 1 ELSE count
         /\ cmps' = cmps + v[2]
         /\ pc' = IF v[3] = "ub" THEN "ub" ELSE pc
         /\ trace' = Append(trace, Ev("tail", i, 1, NoCell, HighestRead(v, i, 0), <<>>, {i}))
    /\ i' = i + 1
    /\ UNCHANGED notSearch

\* naive_string_search, aarch64 branch, pattern_len >= 8: one iteration of
\* for (i = 0; i <= text_len - pattern_len; i += 16) with 16 characters left
MainSearchBlockNEON ==
    /\ kernel = "search" /\ pc = "run" /\ file = "main"
    /\ MainSearchBlocks
    /\ LeLastStart(i, text, pattern)
    /\ ~(Len(text) - i < 16)
    /\ LET any == \E b \in 0..15 : text[i + b + 1] = pattern[1]
           r   == IF any
                  THEN CheckLanes(<<0, count, cmps + 16, "go", {}, i + 15>>, text, pattern, i, 1)
                  ELSE <<Cardinality({b \in 0..15 : LeLastStart(i + b, text, pattern)}),
                         count, cmps + 16, "go", {}, i + 15>>
       IN  /\ count' = r[2]
           /\ cmps' = r[3]
           /\ pc' = IF r[4] = "ub" THEN "ub" ELSE pc
           /\ trace' = Append(trace, Ev("block", i, r[1], NoCell, r[6], <<>>, r[5]))
    /\ i' = i + 16
    /\ UNCHANGED notSearch

\* naive_string_search, aarch64 branch: if (remaining < 16) break; return count
MainSearchBreak ==
    /\ kernel = "search" /\ pc = "run" /\ file = "main"
    /\ MainSearchBlocks
    /\ LeLastStart(i, text, pattern)
    /\ Len(text) - i < 16
    /\ pc' = "done"
    /\ UNCHANGED <<notSearch, count, cmps, i>>
    /\ UNCHANGED trace

\* naive_string_search: the loop condition fails; return count
MainSearchReturn ==
    /\ kernel = "search" /\ pc = "run" /\ file = "main"
    /\ ~LeLastStart(i, text, pattern)
    /\ pc' = "done"
    /\ UNCHANGED <<notSearch, count, cmps, i>>
    /\ UNCHANGED trace

\* a read beyond the string's terminator is undefined: the call faults ...
SearchFault ==
    /\ kernel = "search" /\ pc = "ub"
    /\ pc' = "crashed"
    /\ UNCHANGED <<notSearch, count, cmps, i>>
    /\ UNCHANGED trace

\* ... or goes on over whatever memory follows and returns some count
SearchGarbage ==
    /\ kernel = "search" /\ pc = "ub"
    /\ \E c \in 0..MaxUBCount : count' = count + c
    /\ pc' = "done"
    /\ UNCHANGED <<notSearch, cmps, i>>
    /\ UNCHANGED trace

NextSearch ==
    \/ SearchReject \/ SearchBlockSSE \/ SearchTail \/ SearchReturn
    \/ MainSearchStep \/ MainSearchBlockNEON \/ MainSearchBreak \/ MainSearchReturn
    \/ SearchFault \/ SearchGarbage

SpecSearch == InitSearch /\ [][NextSearch]_vars

\* the occurrences of p in t: the start indices at which p equals the text
Occurrences(t, p) ==
    { s \in 0..(Len(t) - Len(p)) : \A q \in 1..Len(p) : t[s + q] = p[q] }

-----------------------------------------------------------------------------
(* Matrix::multiply and Matrix::sum (matrix_operations.cpp, main.cpp) *)

MaxRows  == 3
MaxInner == 3
MaxCols  == 3
MaxSeed  == 1

\* Matrix(r, c): r rows of c zeros
ZeroMatrix(r, c) ==
    [rows |-> r, cols |-> c, data |-> [ii \in 1..r |-> [jj \in 1..c |-> 0]], none |-> FALSE]

\* the operands the callers fill in: elements in -3..3 set from a seed
Filled(r, c, seed) ==
    [rows |-> r, cols |-> c,
     data |-> [ii \in 1..r |-> [jj \in 1..c |-> ((seed + 3 * ii + 5 * jj) % 7) - 3]],
     none |-> FALSE]

Identity(d) ==
    [rows |-> d, cols |-> d,
     data |-> [ii \in 1..d |-> [jj \in 1..d |-> IF ii = jj THEN 1 ELSE 0]],
     none |-> FALSE]

LeftOperands ==
    { Filled(r, c, seed) : r \in 0..MaxRows, c \in 0..MaxInner, seed \in 0..MaxSeed }
RightOperands ==
    { Filled(r, c, seed) : r \in 0..MaxInner, c \in 0..MaxCols, seed \in 0..MaxSeed }
        \cup { Identity(d) : d \in 0..MaxInner }

\* matrix_operations.cpp knows both vector variants; main.cpp tests only __aarch64__
MulPath(f, t) ==
    IF f = "lib"
    THEN (IF t = "x86_64" THEN "sse2" ELSE IF t = "aarch64" THEN "neon" ELSE "scalar")
    ELSE (IF t = "aarch64" THEN "neon" ELSE "scalar")

InitMul ==
    /\ file \in Files /\ target \in Targets /\ charSigned = TRUE
    /\ kernel = "multiply" /\ pc = "run"
    /\ IdleIdx
    /\ A \in LeftOperands /\ B \in RightOperands
    /\ result = NoMatrix /\ reads = 0
    /\ sum_vec = <<0, 0>> /\ sum = 0 /\ total = 0
    /\ IdleHash /\ IdleSearch /\ IdleCopy /\ IdlePoly

notMat == <<hashVars, searchVars, copyVars, polyVars, buildVars, A, B>>

\* data[r][c] with the source's 0-based indices
At(m, r, c) == m.data[r + 1][c + 1]

\* a check of the wrong dimension: rows against rows
MulThrowsOnRows(a, b) == a.rows # b.rows

\* if (cols != other.rows) throw
MulThrows(a, b) == a.cols # b.rows

\* Matrix::multiply: the dimension check fails, std::runtime_error is thrown
MulThrow ==
    /\ kernel = "multiply" /\ pc = "run"
    /\ MulThrows(A, B)
    /\ pc' = "thrown"
    /\ UNCHANGED <<notMat, result, reads, sum_vec, sum, total, kernel, i, j, k>>
    /\ UNCHANGED trace

\* Matrix::multiply: the check passes; Matrix result(rows, other.cols)
MulAlloc ==
    /\ kernel = "multiply" /\ pc = "run"
    /\ ~MulThrows(A, B)
    /\ result' = ZeroMatrix(A.rows, B.cols)
    /\ pc' = "loop"
    /\ UNCHANGED <<notMat, reads, sum_vec, sum, total, kernel, i, j, k>>
    /\ UNCHANGED trace

InCell == kernel = "multiply" /\ pc = "loop" /\ i < A.rows /\ j < B.cols

\* one step of the pair loop: lane 0 takes data[i][k] * other.data[k][j],
\* lane 1 takes data[i][k+1] * other.data[k+1][j]
PairStep(v, a, b, r, c, kk) ==
    <<v[1] + At(a, r, kk) * At(b, kk, c), v[2] + At(a, r, kk + 1) * At(b, kk + 1, c)>>

\* double sum = lane 0 + lane 1
HorizontalAdd(v) == v[1] + v[2]

\* a multiply that forgets the element left over by the pair loop
LeftoverDropped(s, a, b, r, c, kk) == s

\* if (k < cols) sum += data[i][k] * other.data[k][j]
Leftover(s, a, b, r, c, kk) ==
    IF kk < a.cols THEN s + At(a, r, kk) * At(b, kk, c) ELSE s

\* for (; k < cols; k++) sum += data[i][k] * other.data[k][j]; st is <<sum, k>>
RECURSIVE TailLoop(_, _, _, _, _)
TailLoop(st, a, b, r, c) ==
    IF st[2] < a.cols
    THEN TailLoop(<<st[1] + At(a, r, st[2]) * At(b, st[2], c), st[2] + 1>>, a, b, r, c)
    ELSE st

\* result.data[i][j] = sum
Store(m, r, c, v) == [m EXCEPT !.data[r + 1][c + 1] = v]

\* matrix_operations.cpp, SSE2 path: one iteration of for (; k + 1 < cols; k += 2)
MulPairSSE ==
    /\ InCell /\ file = "lib" /\ MulPath(file, target) = "sse2"
    /\ k + 1 < A.cols
    /\ sum_vec' = PairStep(sum_vec, A, B, i, j, k)
    /\ k' = k + 2
    /\ reads' = reads + 4
    /\ UNCHANGED <<notMat, result, sum, total, kernel, pc, i, j>>
    /\ trace' = Append(trace, Ev("block", k, 2, <<i, j>>, k + 1, <<>>, {}))

\* matrix_operations.cpp, NEON path: one iteration of for (; k + 1 < cols; k += 2)
MulPairNEON ==
    /\ InCell /\ file = "lib" /\ MulPath(file, target) = "neon"
    /\ k + 1 < A.cols
    /\ sum_vec' = PairStep(sum_vec, A, B, i, j, k)
    /\ k' = k + 2
    /\ reads' = reads + 4
    /\ UNCHANGED <<notMat, result, sum, total, kernel, pc, i, j>>
    /\ trace' = Append(trace, Ev("block", k, 2, <<i, j>>, k + 1, <<>>, {}))

\* main.cpp, aarch64 branch: one iteration of for (; k + 1 < cols; k += 2)
MainMulPair ==
    /\ InCell /\ file = "main" /\ MulPath(file, target) = "neon"
    /\ k + 1 < A.cols
    /\ sum_vec' = PairStep(sum_vec, A, B, i, j, k)
    /\ k' = k + 2
    /\ reads' = reads + 4
    /\ UNCHANGED <<notMat, result, sum, total, kernel, pc, i, j>>
    /\ trace' = Append(trace, Ev("block", k, 2, <<i, j>>, k + 1, <<>>, {}))

\* matrix_operations.cpp, SSE2 and NEON paths: horizontal add, the remaining
\* element, the store of the cell; the j loop goes on
MulCell ==
    /\ InCell /\ file = "lib" /\ MulPath(file, target) \in {"sse2", "neon"}
    /\ ~(k + 1 < A.cols)
    /\ result' = Store(result, i, j, Leftover(HorizontalAdd(sum_vec), A, B, i, j, k))
    /\ reads' = reads + (IF k < A.cols THEN 2 ELSE 0)
    /\ j' = j + 1 /\ k' = 0 /\ sum_vec' = <<0, 0>>
    /\ UNCHANGED <<notMat, sum, total, kernel, pc, i>>
    /\ trace' = (IF k < A.cols THEN Append(trace, Ev("tail", k, 1, <<i, j>>, k, <<>>, {})) ELSE trace)

\* main.cpp, aarch64 branch: horizontal add, the remaining-elements loop, the store
MainMulCell ==
    /\ InCell /\ file = "main" /\ MulPath(file, target) = "neon"
    /\ ~(k + 1 < A.cols)
    /\ LET t == TailLoop(<<HorizontalAdd(sum_vec), k>>, A, B, i, j) IN
         /\ result' = Store(result, i, j, t[1])
         /\ reads' = reads + 2 * (t[2] - k)
         /\ trace' = (IF t[2] > k
                      THEN Append(trace, Ev("tail", k, t[2] - k, <<i, j>>, t[2] - 1, <<>>, {}))
                      ELSE trace)
    /\ j' = j + 1 /\ k' = 0 /\ sum_vec' = <<0, 0>>
    /\ UNCHANGED <<notMat, sum, total, kernel, pc, i>>

\* scalar fallback of both files: one iteration of for (k = 0; k < cols; k++)
MulScalarStep ==
    /\ InCell /\ MulPath(file, target) = "scalar"
    /\ k < A.cols
    /\ sum' = sum + At(A, i, k) * At(B, k, j)
    /\ k' = k + 1
    /\ reads' = reads + 2
    /\ UNCHANGED <<notMat, result, sum_vec, total, kernel, pc, i, j>>
    /\ trace' = Append(trace, Ev("tail", k, 1, <<i, j>>, k, <<>>, {}))

\* scalar fallback of both files: result.data[i][j] = sum; the j loop goes on
MulScalarStore ==
    /\ InCell /\ MulPath(file, target) = "scalar"
    /\ ~(k < A.cols)
    /\ result' = Store(result, i, j, sum)
    /\ j' = j + 1 /\ k' = 0 /\ sum' = 0
    /\ UNCHANGED <<notMat, reads, sum_vec, total, kernel, pc, i>>
    /\ UNCHANGED trace

\* every variant: the j loop of row i ends; the i loop goes on
MulNextRow ==
    /\ kernel = "multiply" /\ pc = "loop"
    /\ i < A.rows /\ ~(j < B.cols)
    /\ i' = i + 1 /\ j' = 0
    /\ UNCHANGED <<notMat, result, reads, sum_vec, sum, total, kernel, pc, k>>
    /\ UNCHANGED trace

\* every variant: the i loop ends; return result
MulReturn ==
    /\ kernel = "multiply" /\ pc = "loop"
    /\ ~(i < A.rows)
    /\ pc' = "done"
    /\ UNCHANGED <<notMat, result, reads, sum_vec, sum, total, kernel, i, j, k>>
    /\ UNCHANGED trace

(* Matrix::sum, called on the product as the benchmarks do (c.sum()) *)

SumPath(f, t) == IF f = "main" /\ t = "aarch64" THEN "neon" ELSE "scalar"

\* a row sum that stops one column early
RECURSIVE SumRowSkipsLast(_, _, _)
SumRowSkipsLast(st, m, r) ==
    IF st[2] + 1 < m.cols THEN SumRowSkipsLast(<<st[1] + At(m, r, st[2]), st[2] + 1>>, m, r)
    ELSE st

\* for (j = 0; j < cols; j++) total += data[i][j]; st is <<total, j>>
RECURSIVE SumRowScalar(_, _, _)
SumRowScalar(st, m, r) ==
    IF st[2] < m.cols THEN SumRowScalar(<<st[1] + At(m, r, st[2]), st[2] + 1>>, m, r)
    ELSE st

\* for (; j + 1 < cols; j += 2) sum_vec += {data[i][j], data[i][j+1]}; st is <<sum_vec, j>>
RECURSIVE SumRowPairs(_, _, _)
SumRowPairs(st, m, r) ==
    IF st[2] + 1 < m.cols
    THEN SumRowPairs(<< <<st[1][1] + At(m, r, st[2]), st[1][2] + At(m, r, st[2] + 1)>>,
                        st[2] + 2 >>, m, r)
    ELSE st

\* the call c.sum() on the returned matrix starts: total = 0, sum_vec = 0
SumStart ==
    /\ kernel = "multiply" /\ pc = "done"
    /\ kernel' = "sum" /\ pc' = "loop"
    /\ i' = 0 /\ j' = 0 /\ k' = 0
    /\ total' = 0 /\ sum_vec' = <<0, 0>>
    /\ UNCHANGED <<notMat, result, reads, sum>>
    /\ UNCHANGED trace

\* matrix_operations.cpp and the fallback branch of main.cpp: one row
SumRow ==
    /\ kernel = "sum" /\ pc = "loop" /\ SumPath(file, target) = "scalar"
    /\ i < result.rows
    /\ total' = SumRowScalar(<<total, 0>>, result, i)[1]
    /\ i' = i + 1
    /\ UNCHANGED <<notMat, result, reads, sum_vec, sum, kernel, pc, j, k>>
    /\ UNCHANGED trace

\* main.cpp, aarch64 branch: one row, pairs into sum_vec, the rest into total
MainSumRow ==
    /\ kernel = "sum" /\ pc = "loop" /\ SumPath(file, target) = "neon"
    /\ i < result.rows
    /\ LET p == SumRowPairs(<<sum_vec, 0>>, result, i) IN
         /\ sum_vec' = p[1]
         /\ total' = SumRowScalar(<<total, p[2]>>, result, i)[1]
    /\ i' = i + 1
    /\ UNCHANGED <<notMat, result, reads, sum, kernel, pc, j, k>>
    /\ UNCHANGED trace

\* matrix_operations.cpp and the fallback branch of main.cpp: return total
SumReturn ==
    /\ kernel = "sum" /\ pc = "loop" /\ SumPath(file, target) = "scalar"
    /\ ~(i < result.rows)
    /\ pc' = "done"
    /\ UNCHANGED <<notMat, result, reads, sum_vec, sum, total, kernel, i, j, k>>
    /\ UNCHANGED trace

\* main.cpp, aarch64 branch: total += lane 0 + lane 1; return total
MainSumReturn ==
    /\ kernel = "sum" /\ pc = "loop" /\ SumPath(file, target) = "neon"
    /\ ~(i < result.rows)
    /\ total' = total + HorizontalAdd(sum_vec)
    /\ pc' = "done"
    /\ UNCHANGED <<notMat, result, reads, sum_vec, sum, kernel, i, j, k>>
    /\ UNCHANGED trace

NextMul ==
    \/ MulThrow \/ MulAlloc
    \/ MulPairSSE \/ MulPairNEON \/ MainMulPair \/ MulCell \/ MainMulCell
    \/ MulScalarStep \/ MulScalarStore \/ MulNextRow \/ MulReturn
    \/ SumStart \/ SumRow \/ MainSumRow \/ SumReturn \/ MainSumReturn

SpecMul == InitMul /\ [][NextMul]_vars

(* Matrix::sum as a function of the build and the matrix: the loops run to their end *)
RECURSIVE SumRowsScalar(_, _)
SumRowsScalar(st, m) ==
    IF st[2] < m.rows THEN SumRowsScalar(<<SumRowScalar(<<st[1], 0>>, m, st[2])[1], st[2] + 1>>, m)
    ELSE st[1]

\* st is <<total, sum_vec, i>>
RECURSIVE SumRowsPairs(_, _)
SumRowsPairs(st, m) ==
    IF st[3] < m.rows
    THEN LET p == SumRowPairs(<<st[2], 0>>, m, st[3]) IN
         SumRowsPairs(<<SumRowScalar(<<st[1], p[2]>>, m, st[3])[1], p[1], st[3] + 1>>, m)
    ELSE st[1] + HorizontalAdd(st[2])

Matrix_sum(f, t, m) ==
    IF SumPath(f, t) = "neon" THEN SumRowsPairs(<<0, <<0, 0>>, 0>>, m)
    ELSE SumRowsScalar(<<0, 0>>, m)

(* The mathematical definitions the claims refer to *)
RECURSIVE SumOver(_, _)
\* the sum of f[q] for q in 1..len
SumOver(f, len) == IF len = 0 THEN 0 ELSE f[len] + SumOver(f, len - 1)

DotProduct(a, b, r, c) == SumOver([q \in 1..a.cols |-> a.data[r][q] * b.data[q][c]], a.cols)
ElementSum(m) == SumOver([r \in 1..m.rows |-> SumOver(m.data[r], m.cols)], m.rows)

\* multiply has returned (and sum may be running on its result)
MulReturned == (kernel = "multiply" /\ pc = "done") \/ kernel = "sum"

-----------------------------------------------------------------------------
(* Memory copy: fast_memcpy (memory_operations.cpp), slow_memcpy (main.cpp) *)

MaxCopyLen == 25
MaxSlack   == 1
CopySeeds  == {0, 250}
DestFill   == 0

\* a source buffer of cap bytes, none of them equal to the destination's fill
SourceBytes(cap, seed) == [q \in 1..cap |-> 1 + ((seed + q) % 255)]

\* memory_operations.cpp tests only __x86_64__; main.cpp tests only __aarch64__
CopyPath(f, t) ==
    IF f = "lib" THEN (IF t = "x86_64" THEN "sse2" ELSE "scalar")
    ELSE (IF t = "aarch64" THEN "neon" ELSE "scalar")

\* the caller's precondition: two disjoint buffers of at least n bytes
InitCopy ==
    /\ file \in Files /\ target \in Targets /\ charSigned = TRUE
    /\ kernel = "copy" /\ pc = "run"
    /\ IdleIdx
    /\ n \in 0..MaxCopyLen
    /\ \E slack \in 0..MaxSlack, seed \in CopySeeds :
          /\ src = SourceBytes(n + slack, seed)
          /\ dest = [q \in 1..(n + slack) |-> DestFill]
    /\ IdleHash /\ IdleSearch /\ IdleMat /\ IdlePoly

notCopy == <<hashVars, searchVars, matVars, polyVars, buildVars, kernel, pc, j, k, n>>

\* a block copy that loses the last byte of each block of more than one byte
CopyBytesShort(bufs, i0, w) ==
    << [q \in 1..Len(bufs[1]) |->
          IF q > i0 /\ q <= i0 + (IF w > 1 THEN w - 1 ELSE w) THEN bufs[2][q] ELSE bufs[1][q]],
       bufs[2] >>

\* a copy with the two pointers exchanged: it stores into the source
CopyBytesSwapped(bufs, i0, w) ==
    << bufs[1],
       [q \in 1..Len(bufs[2]) |-> IF q > i0 /\ q <= i0 + w THEN bufs[1][q] ELSE bufs[2][q]] >>

\* d[i] = s[i] ... d[i + w - 1] = s[i + w - 1] on the buffers <<d, s>>: a
\* load of w bytes at s + i0 and a store of them at d + i0
CopyBytes(bufs, i0, w) ==
    << [q \in 1..Len(bufs[1]) |-> IF q > i0 /\ q <= i0 + w THEN bufs[2][q] ELSE bufs[1][q]],
       bufs[2] >>

\* fast_memcpy, SSE2 path: one iteration of for (; i + 16 <= n; i += 16)
CopyBlockSSE ==
    /\ kernel = "copy" /\ pc = "run" /\ file = "lib" /\ CopyPath(file, target) = "sse2"
    /\ i + 16 <= n
    /\ LET r == CopyBytes(<<dest, src>>, i, 16) IN dest' = r[1] /\ src' = r[2]
    /\ i' = i + 16
    /\ UNCHANGED notCopy
    /\ trace' = Append(trace, Ev("block", i, 16, NoCell, i + 15, <<>>, {}))

CopyBlocksDone ==
    \/ CopyPath(file, target) = "scalar"
    \/ CopyPath(file, target) = "sse2" /\ ~(i + 16 <= n)

\* fast_memcpy: one iteration of for (; i < n; i++) d[i] = s[i]
CopyTail ==
    /\ kernel = "copy" /\ pc = "run" /\ file = "lib"
    /\ CopyBlocksDone
    /\ i < n
    /\ LET r == CopyBytes(<<dest, src>>, i, 1) IN dest' = r[1] /\ src' = r[2]
    /\ i' = i + 1
    /\ UNCHANGED notCopy
    /\ trace' = Append(trace, Ev("tail", i, 1, NoCell, i, <<>>, {}))

\* fast_memcpy returns
CopyReturn ==
    /\ kernel = "copy" /\ pc = "run" /\ file = "lib"
    /\ CopyBlocksDone
    /\ ~(i < n)
    /\ pc' = "done"
    /\ UNCHANGED <<hashVars, searchVars, matVars, polyVars, buildVars, copyVars, kernel, i, j, k>>
    /\ UNCHANGED trace

\* slow_memcpy, aarch64 branch: one iteration of for (; i + 15 < n; i += 16)
MainCopy16 ==
    /\ kernel = "copy" /\ pc = "run" /\ file = "main" /\ CopyPath(file, target) = "neon"
    /\ i + 15 < n
    /\ LET r == CopyBytes(<<dest, src>>, i, 16) IN dest' = r[1] /\ src' = r[2]
    /\ i' = i + 16
    /\ UNCHANGED notCopy
    /\ trace' = Append(trace, Ev("block", i, 16, NoCell, i + 15, <<>>, {}))

\* slow_memcpy, aarch64 branch: one iteration of for (; i + 7 < n; i += 8)
MainCopy8 ==
    /\ kernel = "copy" /\ pc = "run" /\ file = "main" /\ CopyPath(file, target) = "neon"
    /\ ~(i + 15 < n)
    /\ i + 7 < n
    /\ LET r == CopyBytes(<<dest, src>>, i, 8) IN dest' = r[1] /\ src' = r[2]
    /\ i' = i + 8
    /\ UNCHANGED notCopy
    /\ trace' = Append(trace, Ev("tail", i, 8, NoCell, i + 7, <<>>, {}))

\* slow_memcpy, aarch64 branch: one iteration of for (; i < n; i++)
MainCopy1 ==
    /\ kernel = "copy" /\ pc = "run" /\ file = "main" /\ CopyPath(file, target) = "neon"
    /\ ~(i + 15 < n) /\ ~(i + 7 < n)
    /\ i < n
    /\ LET r == CopyBytes(<<dest, src>>, i, 1) IN dest' = r[1] /\ src' = r[2]
    /\ i' = i + 1
    /\ UNCHANGED notCopy
    /\ trace' = Append(trace, Ev("tail", i, 1, NoCell, i, <<>>, {}))

\* slow_memcpy, fallback branch: one iteration of for (i = 0; i < n; i++)
MainCopyStep ==
    /\ kernel = "copy" /\ pc = "run" /\ file = "main" /\ CopyPath(file, target) = "scalar"
    /\ i < n
    /\ LET r == CopyBytes(<<dest, src>>, i, 1) IN dest' = r[1] /\ src' = r[2]
    /\ i' = i + 1
    /\ UNCHANGED notCopy
    /\ trace' = Append(trace, Ev("tail", i, 1, NoCell, i, <<>>, {}))

\* slow_memcpy returns
MainCopyReturn ==
    /\ kernel = "copy" /\ pc = "run" /\ file = "main"
    /\ ~(i < n)
    /\ pc' = "done"
    /\ UNCHANGED <<hashVars, searchVars, matVars, polyVars, buildVars, copyVars, kernel, i, j, k>>
    /\ UNCHANGED trace

NextCopy ==
    \/ CopyBlockSSE \/ CopyTail \/ CopyReturn
    \/ MainCopy16 \/ MainCopy8 \/ MainCopy1 \/ MainCopyStep \/ MainCopyReturn

SpecCopy == InitCopy /\ [][NextCopy]_vars

-----------------------------------------------------------------------------
(* Polynomial evaluation: polynomial_eval_sse (polynomial_eval.cpp), polynomial_eval (main.cpp) *)

MaxCoeffs   == 4
MaxAbsX     == 2
CoeffValues == {-1, 1, 2}

CoeffSeqs == UNION { [1..l -> CoeffValues] : l \in 0..MaxCoeffs }

\* polynomial_eval.cpp knows both vector variants; main.cpp has an FMA loop on aarch64
PolyPath(f, t) ==
    IF f = "lib"
    THEN (IF t = "x86_64" THEN "sse2" ELSE IF t = "aarch64" THEN "neon" ELSE "scalar")
    ELSE (IF t = "aarch64" THEN "fma" ELSE "scalar")

\* power_vec: lanes <<1.0, x>> on the vector paths; lane 0 is the scalar
\* variable power (1.0) on the others
InitPoly ==
    /\ file \in Files /\ target \in Targets /\ charSigned = TRUE
    /\ kernel = "poly" /\ pc = "run"
    /\ IdleIdx
    /\ x \in (0 - MaxAbsX)..MaxAbsX
    /\ coeffs \in CoeffSeqs
    /\ power_vec = (IF PolyPath(file, target) \in {"sse2", "neon"} THEN <<1, x>> ELSE <<1, 0>>)
    /\ result_vec = <<0, 0>> /\ pres = 0
    /\ IdleHash /\ IdleSearch /\ IdleMat /\ IdleCopy

notPoly == <<hashVars, searchVars, matVars, copyVars, buildVars, kernel, j, k, x, coeffs>>

\* a power multiplier of x instead of x * x
PowerMultByX(xv) == <<xv, xv>>

\* power_mult = x * x in both lanes
PowerMult(xv) == <<xv * xv, xv * xv>>

\* term = coeff_vec * power_vec; result_vec += term, with coeffs[i] in lane 0
\* and coeffs[i + 1] in lane 1
AddTerms(rv, pv, cs, i0) == <<rv[1] + cs[i0 + 1] * pv[1], rv[2] + cs[i0 + 2] * pv[2]>>

\* power_vec = power_vec * power_mult
AdvancePowers(pv, xv) == <<pv[1] * PowerMult(xv)[1], pv[2] * PowerMult(xv)[2]>>

\* a leftover coefficient multiplied by lane 1 of the power vector
LeftoverCoeffLane1(r, pv, cs, i0) == IF i0 < Len(cs) THEN r + cs[i0 + 1] * pv[2] ELSE r

\* if (i < coeffs.size()) result += coeffs[i] * lane 0 of power_vec
LeftoverCoeff(r, pv, cs, i0) == IF i0 < Len(cs) THEN r + cs[i0 + 1] * pv[1] ELSE r

\* polynomial_eval.cpp, SSE2 path: one iteration of for (; i + 1 < coeffs.size(); i += 2)
PolyPairSSE ==
    /\ kernel = "poly" /\ pc = "run" /\ PolyPath(file, target) = "sse2"
    /\ i + 1 < Len(coeffs)
    /\ result_vec' = AddTerms(result_vec, power_vec, coeffs, i)
    /\ power_vec' = AdvancePowers(power_vec, x)
    /\ i' = i + 2
    /\ UNCHANGED <<notPoly, pres, pc>>
    /\ trace' = Append(trace, Ev("block", i, 2, NoCell, i + 1, <<>>, {}))

\* polynomial_eval.cpp, NEON path: one iteration of for (; i + 1 < coeffs.size(); i += 2)
PolyPairNEON ==
    /\ kernel = "poly" /\ pc = "run" /\ PolyPath(file, target) = "neon"
    /\ i + 1 < Len(coeffs)
    /\ result_vec' = AddTerms(result_vec, power_vec, coeffs, i)
    /\ power_vec' = AdvancePowers(power_vec, x)
    /\ i' = i + 2
    /\ UNCHANGED <<notPoly, pres, pc>>
    /\ trace' = Append(trace, Ev("block", i, 2, NoCell, i + 1, <<>>, {}))

\* polynomial_eval.cpp, SSE2 and NEON paths: horizontal add of result_vec,
\* the remaining coefficient, return result
PolyFinish ==
    /\ kernel = "poly" /\ pc = "run" /\ PolyPath(file, target) \in {"sse2", "neon"}
    /\ ~(i + 1 < Len(coeffs))
    /\ pres' = LeftoverCoeff(result_vec[1] + result_vec[2], power_vec, coeffs, i)
    /\ pc' = "done"
    /\ UNCHANGED <<notPoly, result_vec, power_vec, i>>
    /\ trace' = (IF i < Len(coeffs) THEN Append(trace, Ev("tail", i, 1, NoCell, i, <<>>, {})) ELSE trace)

\* result = result + coeffs[i] * power (also __builtin_fma(coeffs[i], power, result))
ScalarTerm(r, pw, cs, i0) == r + cs[i0 + 1] * pw

\* polynomial_eval.cpp, scalar fallback: one iteration of the coefficient loop
PolyScalarStep ==
    /\ kernel = "poly" /\ pc = "run" /\ file = "lib" /\ PolyPath(file, target) = "scalar"
    /\ i < Len(coeffs)
    /\ pres' = ScalarTerm(pres, power_vec[1], coeffs, i)
    /\ power_vec' = <<power_vec[1] * x, power_vec[2]>>
    /\ i' = i + 1
    /\ UNCHANGED <<notPoly, result_vec, pc>>
    /\ trace' = Append(trace, Ev("tail", i, 1, NoCell, i, <<>>, {}))

\* main.cpp, aarch64 branch: one iteration of the FMA loop
MainPolyStepFMA ==
    /\ kernel = "poly" /\ pc = "run" /\ file = "main" /\ PolyPath(file, target) = "fma"
    /\ i < Len(coeffs)
    /\ pres' = ScalarTerm(pres, power_vec[1], coeffs, i)
    /\ power_vec' = <<power_vec[1] * x, power_vec[2]>>
    /\ i' = i + 1
    /\ UNCHANGED <<notPoly, result_vec, pc>>
    /\ trace' = Append(trace, Ev("tail", i, 1, NoCell, i, <<>>, {}))

\* main.cpp, fallback branch: one iteration of the coefficient loop
MainPolyStep ==
    /\ kernel = "poly" /\ pc = "run" /\ file = "main" /\ PolyPath(file, target) = "scalar"
    /\ i < Len(coeffs)
    /\ pres' = ScalarTerm(pres, power_vec[1], coeffs, i)
    /\ power_vec' = <<power_vec[1] * x, power_vec[2]>>
    /\ i' = i + 1
    /\ UNCHANGED <<notPoly, result_vec, pc>>
    /\ trace' = Append(trace, Ev("tail", i, 1, NoCell, i, <<>>, {}))

\* the scalar loops of both files end: return result
PolyScalarReturn ==
    /\ kernel = "poly" /\ pc = "run" /\ PolyPath(file, target) \in {"scalar", "fma"}
    /\ ~(i < Len(coeffs))
    /\ pc' = "done"
    /\ UNCHANGED <<notPoly, result_vec, power_vec, pres, i>>
    /\ UNCHANGED trace

NextPoly ==
    \/ PolyPairSSE \/ PolyPairNEON \/ PolyFinish
    \/ PolyScalarStep \/ MainPolyStepFMA \/ MainPolyStep \/ PolyScalarReturn

SpecPoly == InitPoly /\ [][NextPoly]_vars

\* x to the power e
RECURSIVE Pow(_, _)
Pow(b, e) == IF e = 0 THEN 1 ELSE b * Pow(b, e - 1)

\* the sum over i of coeffs[i] * x^i, coefficient indices from 0
PolyValue(xv, cs) == SumOver([q \in 1..Len(cs) |-> cs[q] * Pow(xv, q - 1)], Len(cs))

-----------------------------------------------------------------------------
(* Every kernel, in every build *)

Init == InitHash \/ InitSearch \/ InitMul \/ InitCopy \/ InitPoly

Next == NextHash \/ NextSearch \/ NextMul \/ NextCopy \/ NextPoly

Spec == Init /\ [][Next]_vars

-----------------------------------------------------------------------------
(* The variant each kernel's preprocessor conditions select *)

\* the variant a path belongs to: SSE2 is vector variant A, the aarch64
\* paths with NEON or CRC32 instructions are vector variant B, a plain loop
\* (also with __builtin_fma) is the scalar fallback
VariantOf(path) ==
    IF path = "sse2" THEN "A"
    ELSE IF path \in {"neon", "crc"} THEN "B"
    ELSE "scalar"

\* the variant of each of the five kernels in the files f built for target t
KernelVariants(f, t) ==
    [hash     |-> VariantOf(HashPath(f, t)),
     multiply |-> VariantOf(MulPath(f, t)),
     search   |-> VariantOf(SearchPath(f, t)),
     copy     |-> VariantOf(CopyPath(f, t)),
     poly     |-> VariantOf(PolyPath(f, t))]

-----------------------------------------------------------------------------
(* Claims *)

\* C1: when compute_hash returns, its value is the value every build's
\* compute_hash gives for the same bytes.
C1_SameHashInEveryVariant ==
    (kernel = "hash" /\ pc = "done") =>
        \A b \in Builds : hash = compute_hash(b[1], b[2], b[3], data)

\* C2: when compute_hash returns, its value is the DJB2 fold of the bytes
\* (seed 5381, value*33 + byte modulo 2^64, bytes taken as 0..255).
C2_HashIsDjb2 ==
    (kernel = "hash" /\ pc = "done") => hash = Djb2(data)

\* C3: a search for a non-empty pattern always returns, and returns the
\* number of start indices at which the pattern occurs in the text
\* (overlapping occurrences included).
C3_CountIsBruteForce ==
    (kernel = "search" /\ Len(pattern) > 0) =>
        /\ pc \notin {"ub", "crashed"}
        /\ pc = "done" => count = Cardinality(Occurrences(text, pattern))

\* C4: with an empty pattern or a pattern longer than the text, the search
\* compares no character and returns 0.
C4_EdgeCasesReturnZero ==
    (kernel = "search" /\ (Len(pattern) = 0 \/ Len(pattern) > Len(text))) =>
        /\ cmps = 0
        /\ pc \notin {"ub", "crashed"}
        /\ pc = "done" => count = 0

\* C5: while the inner dimensions disagree, multiply has allocated no result
\* and read no element, and it ends by throwing; it throws only when they
\* disagree.
C5_DimensionMismatchThrows ==
    (kernel = "multiply") =>
        /\ (A.cols # B.rows) => (result = NoMatrix /\ reads = 0 /\ pc \in {"run", "thrown"})
        /\ (pc = "thrown") => (A.cols # B.rows)

C5_Witness ==
    kernel = "multiply" /\ pc = "thrown" /\ A.rows = 2 /\ A.cols = 3 /\ B.rows = 2 /\ B.cols = 3

\* C6: the matrix multiply returns has A.rows rows and B.cols columns, and
\* its element [i][j] is the sum over k of A[i][k] * B[k][j].
C6_ProductIsDotProducts ==
    MulReturned =>
        /\ result.none = FALSE
        /\ result.rows = A.rows /\ result.cols = B.cols
        /\ Len(result.data) = A.rows
        /\ \A r \in 1..A.rows :
              /\ Len(result.data[r]) = B.cols
              /\ \A c \in 1..B.cols : result.data[r][c] = DotProduct(A, B, r, c)

C6_Witness ==
    /\ kernel = "multiply" /\ pc = "done"
    /\ A.rows = 2 /\ A.cols = 3 /\ B.cols = 2
    /\ MulPath(file, target) = "sse2"
    /\ \E r \in 1..2, c \in 1..2 : result.data[r][c] # 0

\* C9: for a square A and the identity I of the same size, sum(multiply(A, I))
\* is sum(A), and sum(A) is the sum of all the elements of A.
C9_SumOfProductWithIdentity ==
    (kernel = "sum" /\ pc = "done" /\ A.rows = A.cols /\ B = Identity(A.cols)) =>
        /\ total = Matrix_sum(file, target, A)
        /\ total = ElementSum(A)

C9_Witness ==
    /\ kernel = "sum" /\ pc = "done" /\ A.rows = 3 /\ A.cols = 3 /\ B = Identity(3)
    /\ SumPath(file, target) = "neon"
    /\ total # 0

\* C7: when the memory copy returns, dest[i] = src[i] for every i below n.
C7_CopyMakesDestEqualSrc ==
    (kernel = "copy" /\ pc = "done") => \A q \in 1..n : dest[q] = src[q]

C7_Witness ==
    /\ kernel = "copy" /\ pc = "done" /\ n = 25
    /\ file = "main" /\ CopyPath(file, target) = "neon"
    /\ dest[25] = src[25] /\ dest[25] # DestFill

\* C8: when the polynomial kernel returns, its result is the sum over i of
\* coeffs[i] * x^i; 0 for the empty sequence.
C8_PolynomialValue ==
    (kernel = "poly" /\ pc = "done") =>
        /\ pres = PolyValue(x, coeffs)
        /\ (Len(coeffs) = 0) => (pres = 0)

C8_Witness ==
    /\ kernel = "poly" /\ pc = "done" /\ Len(coeffs) = 3 /\ x = 0 - 2
    /\ PolyPath(file, target) = "sse2" /\ pres # 0

\* C10: no step of any kernel changes an input: the hashed bytes, the text
\* and the pattern, the coefficients and x, both operands of multiply, the
\* matrix being summed, the copy's source and length.
C10_InputsUnchanged ==
    [][ /\ data' = data
        /\ text' = text /\ pattern' = pattern
        /\ coeffs' = coeffs /\ x' = x
        /\ A' = A /\ B' = B
        /\ (kernel' = "sum" => result' = result)
        /\ src' = src /\ n' = n ]_vars

C10_Witness ==
    /\ kernel = "copy" /\ pc = "done" /\ n = 17 /\ CopyPath(file, target) = "sse2"
    /\ dest[17] = src[17] /\ src = SourceBytes(Len(src), 0)

\* C11: in the build a call runs in, the five kernels all take the same
\* variant: vector variant A in all, vector variant B in all, or the scalar
\* fallback in all.
C11_OneVariantForAllKernels ==
    LET v == KernelVariants(file, target) IN
        /\ v.hash = v.multiply
        /\ v.multiply = v.search
        /\ v.search = v.copy
        /\ v.copy = v.poly

\* the element indices a history covers, in the order they were handled;
\* st is <<indices so far, next event>>
RECURSIVE TraceIndicesFrom(_, _)
TraceIndicesFrom(st, tr) ==
    IF st[2] > Len(tr) THEN st[1]
    ELSE TraceIndicesFrom(<<st[1] \o [q \in 1..tr[st[2]].w |-> tr[st[2]].at + q - 1],
                            st[2] + 1>>, tr)
TraceIndices(tr) == TraceIndicesFrom(<< <<>>, 1 >>, tr)

\* the values a history added to the running hash, in order
RECURSIVE TraceValuesFrom(_, _)
TraceValuesFrom(st, tr) ==
    IF st[2] > Len(tr) THEN st[1]
    ELSE TraceValuesFrom(<<st[1] \o tr[st[2]].vals, st[2] + 1>>, tr)
TraceValues(tr) == TraceValuesFrom(<< <<>>, 1 >>, tr)

\* C12: in the SSE2 and NEON paths of compute_hash the bytes folded into the
\* hash so far are the bytes 0 .. i-1, in increasing order and once each,
\* every byte is folded in as its value 0..255 whether a block or the tail
\* handled it, and at the return all len bytes have been folded.
C12_HashFoldsBytesInOrder ==
    (kernel = "hash" /\ HashPath(file, target) \in {"sse2", "neon"}) =>
        /\ TraceIndices(trace) = [q \in 1..i |-> q - 1]
        /\ TraceValues(trace) = [q \in 1..i |-> data[q]]
        /\ (pc = "done") => (i = Len(data))

\* the number of candidate start indices 0 .. len(text) - len(pattern)
Candidates(t, p) == IF Len(p) > Len(t) THEN 0 ELSE Len(t) - Len(p) + 1

\* the search runs a block loop: simd_string_search on SSE2, and
\* naive_string_search on aarch64 with a pattern of 8 characters or more
VectorSearch ==
    /\ kernel = "search" /\ Len(pattern) > 0
    /\ \/ file = "lib" /\ SearchPath(file, target) = "sse2"
       \/ file = "main" /\ MainSearchBlocks

\* C13: in the vectorized string search the start indices examined so far are
\* 0, 1, 2, ... in order, once each and none beyond len(text) - len(pattern);
\* at the return every candidate start index has been examined; a block
\* verifies only positions whose first character is pattern[0], and every
\* occurrence among the positions of a block is verified.
C13_EveryCandidateExaminedOnce ==
    VectorSearch =>
        /\ TraceIndices(trace) = [q \in 1..Len(TraceIndices(trace)) |-> q - 1]
        /\ Len(TraceIndices(trace)) <= Candidates(text, pattern)
        /\ (pc = "done") => (Len(TraceIndices(trace)) = Candidates(text, pattern))
        /\ \A e \in 1..Len(trace) :
              (trace[e].op = "block") =>
                  /\ \A q \in trace[e].ver : text[q + 1] = pattern[1]
                  /\ \A q \in trace[e].at .. (trace[e].at + trace[e].w - 1) :
                        (q \in Occurrences(text, pattern)) => (q \in trace[e].ver)


\* the call runs a path with a vector loop followed by a remainder loop
Vectorized ==
    \/ kernel = "hash" /\ HashPath(file, target) \in {"sse2", "neon"}
    \/ kernel = "copy" /\ CopyPath(file, target) \in {"sse2", "neon"}
    \/ kernel \in {"multiply", "sum"} /\ MulPath(file, target) \in {"sse2", "neon"}
    \/ kernel = "poly" /\ PolyPath(file, target) \in {"sse2", "neon"}

\* the width w of the vector loop: 16 bytes, or 2 doubles
LaneWidth == IF kernel \in {"hash", "copy"} THEN 16 ELSE 2

\* the number n of elements the loops run over
Elements ==
    IF kernel = "hash" THEN Len(data)
    ELSE IF kernel = "copy" THEN n
    ELSE IF kernel = "poly" THEN Len(coeffs)
    ELSE A.cols

\* the runs of the loops: one per cell of the product in multiply, one otherwise
Cells ==
    IF kernel \in {"multiply", "sum"}
    THEN (IF MulThrows(A, B) THEN {} ELSE (0..(A.rows - 1)) \X (0..(B.cols - 1)))
    ELSE {NoCell}

\* the loops of cell c have ended
CellEnded(c) ==
    IF kernel = "multiply" THEN pc = "done" \/ i > c[1] \/ (i = c[1] /\ j > c[2])
    ELSE IF kernel = "sum" THEN TRUE
    ELSE pc = "done"

CellEvents(c) == SelectSeq(trace, LAMBDA e : e.cell = c)
BlockEvents(s) == SelectSeq(s, LAMBDA e : e.op = "block")
TailEvents(s) == SelectSeq(s, LAMBDA e : e.op = "tail")

\* C14: on every path with a vector loop of width w over n elements, in each
\* run of the loops the blocks come first, the m-th block starts at index
\* w * (m - 1), the remainder loop starts only at index w * floor(n / w), the
\* indices handled are 0, 1, 2, ... each once, and when the loops have ended
\* there were floor(n / w) blocks, n mod w elements in the remainder loop and
\* n elements in all; for w = 2 the remainder loop handles at most one element.
C14_FullBlocksThenRemainder ==
    Vectorized =>
        \A c \in Cells :
            LET s == CellEvents(c)
                w == LaneWidth
                full == Elements \div w
                idx == TraceIndices(s)
            IN  /\ \A e \in 1..Len(s) :
                      /\ (s[e].op = "block") =>
                            /\ s[e].w = w /\ s[e].at = w * (e - 1)
                            /\ \A f \in 1..(e - 1) : s[f].op = "block"
                      /\ (s[e].op = "tail") => (s[e].at >= w * full)
                /\ idx = [q \in 1..Len(idx) |-> q - 1]
                /\ Len(idx) <= Elements
                /\ Len(BlockEvents(s)) <= full
                /\ (w = 2) => (Len(TraceIndices(TailEvents(s))) <= 1)
                /\ CellEnded(c) =>
                      /\ Len(BlockEvents(s)) = full
                      /\ Len(TraceIndices(TailEvents(s))) = Elements % w
                      /\ Len(idx) = Elements

\* compute_hash has returned from a 17-byte buffer after one block and one
\* byte of the remainder loop
C14_Witness ==
    /\ kernel = "hash" /\ pc = "done" /\ HashPath(file, target) = "sse2"
    /\ Len(data) = 17
    /\ Len(trace) = 2 /\ trace[1].op = "block" /\ trace[2].op = "tail" /\ trace[2].at = 16


\* the sum of cs[q] * xv^(q - 1) over the positions q = first, first + 2, ... below upto
LaneSum(xv, cs, first, upto) ==
    SumOver([q \in 1..upto |-> IF q % 2 = first % 2 THEN cs[q] * Pow(xv, q - 1) ELSE 0], upto)

\* C15: on the SSE2 and NEON paths of polynomial_eval_sse, before the step
\* for coeffs[i] and coeffs[i + 1] (i = 2t) the power vector is
\* (x^i, x^(i + 1)), lane 0 of the accumulator holds the terms of the even
\* coefficients handled so far and lane 1 those of the odd ones, and for an
\* odd length L the value returned adds coeffs[L - 1] times lane 0 of the
\* power vector, which is x^(L - 1).
C15_PowerVectorLanes ==
    (kernel = "poly" /\ PolyPath(file, target) \in {"sse2", "neon"}) =>
        /\ i % 2 = 0 /\ i <= Len(coeffs)
        /\ power_vec = <<Pow(x, i), Pow(x, i + 1)>>
        /\ result_vec = <<LaneSum(x, coeffs, 1, i), LaneSum(x, coeffs, 2, i)>>
        /\ (pc = "done" /\ Len(coeffs) % 2 = 1) =>
              /\ i = Len(coeffs) - 1
              /\ power_vec[1] = Pow(x, Len(coeffs) - 1)
              /\ pres = result_vec[1] + result_vec[2]
                            + coeffs[Len(coeffs)] * Pow(x, Len(coeffs) - 1)
        /\ (pc = "done" /\ Len(coeffs) % 2 = 0) =>
              /\ i = Len(coeffs)
              /\ pres = result_vec[1] + result_vec[2]

\* the NEON path has returned for three coefficients and x = 2: one pair
\* step and the leftover coefficient, taken with x^2 = 4
C15_Witness ==
    /\ kernel = "poly" /\ pc = "done" /\ PolyPath(file, target) = "neon"
    /\ Len(coeffs) = 3 /\ x = 2 /\ i = 2
    /\ power_vec = <<4, 8>>
    /\ pres = coeffs[1] + 2 * coeffs[2] + 4 * coeffs[3]


\* every iteration so far read its input only at indices below len
ReadsBelow(len) == \A e \in 1..Len(trace) : trace[e].hi < len

\* C16: no kernel reads or writes at an index at or beyond the length its
\* caller supplied: the hash reads data below len, the string search reads
\* text below len(text) (so it never reaches the terminator or the memory
\* behind it), multiply reads A[i][k] and B[k][j] with k < K, and the copy
\* reads src and writes dest below n, leaving dest from index n on as it was.
C16_AccessesWithinLengths ==
    /\ (kernel = "hash") => ReadsBelow(Len(data))
    /\ (kernel = "search") => (ReadsBelow(Len(text)) /\ pc \notin {"ub", "crashed"})
    /\ (kernel \in {"multiply", "sum"}) => ReadsBelow(A.cols)
    /\ (kernel = "copy") =>
          /\ ReadsBelow(n)
          /\ \A q \in (n + 1)..Len(dest) : dest[q] = DestFill

====
